---- MODULE Spec2Model ----
(***************************************************************************)
(* Model of the offer service of main.go: the package-level map `offers`   *)
(* (identifier -> *Offer), the Offer objects it points to with their       *)
(* EnabledFor maps, and the five HTTP handlers that read and write them.   *)
(*                                                                         *)
(* Spec     : requests served one after the other; one action per handler. *)
(* SpecConc : net/http serves every request on its own goroutine, so the   *)
(*            handlers of two requests interleave at their accesses to the *)
(*            shared maps; no handler takes a lock.                        *)
(* Outcome (float64, decoded from JSON, never NaN) is modelled by integer  *)
(* values; only its ordering is used by the code.  The Offer fields Name,  *)
(* Description, RewardType and Details are copied by Decode like the       *)
(* modelled fields and read by no handler; they are left out.              *)
(***************************************************************************)
EXTENDS Integers, Sequences, FiniteSets, TLC

\* Bound of the model: number of Offer objects ever allocated by CreateOffer.
MaxOffers == 2

Users == {"u1", "u2"}
OfferIDs == {"A", "B"}
Categories == {"grocery", "Grocery"}
Amounts == {99, 100}

VARIABLES
    offers,   \* var offers map[string]*Offer : identifier -> address in heap
    heap,     \* the Offer objects allocated so far; address = index
    resp,     \* the last request served and what the client got back
    reqs,     \* SpecConc: per goroutine, where its handler is and its locals
    fatal,    \* SpecConc: the runtime has thrown a fatal error; the process is gone
    disabled  \* history: <<offer identifier, user, address>> of every successful
              \* disable not followed by a successful enable of that identifier
              \* and user; the address is the Offer the disable wrote to

vars == <<offers, heap, resp, reqs, fatal, disabled>>

\* The goroutines serving requests in SpecConc.
Goroutines == {1, 2}

\* A goroutine with no request to serve.
Idle == [pc |-> "idle"]

\* A nil *Offer.
NilPtr == 0

\* The values of a map or of a slice.
Range(f) == {f[x] : x \in DOMAIN f}

(***************************************************************************)
(* Go maps map[string]bool.  A nil map reads as empty and panics on write. *)
(***************************************************************************)
NilMap == [isNil |-> TRUE, kv |-> [u \in {} |-> FALSE]]

MakeMap(f) == [isNil |-> FALSE, kv |-> f]

\* m[k] read: the zero value false when the key is absent (or m is nil).
MapIndex(m, k) == IF k \in DOMAIN m.kv THEN m.kv[k] ELSE FALSE

\* m[k] = v panics with "assignment to entry in nil map" when m is nil.
MapAssignPanics(m) == m.isNil

\* m[k] = v on a non-nil map.
MapAssign(m, k, v) ==
    [m EXCEPT !.kv = [x \in (DOMAIN m.kv) \cup {k} |-> IF x = k THEN v ELSE m.kv[x]]]

(***************************************************************************)
(* Request bodies.  A JSON object is a record holding the members present; *)
(* a body that does not parse holds the member syntaxError.                *)
(***************************************************************************)
Malformed == [syntaxError |-> TRUE]

\* The enabledFor members used: {} and {"u1": true}.
NoEntries == [u \in {} |-> FALSE]

U1Enabled == [u \in {"u1"} |-> TRUE]

\* The offer payloads posted to /create-offer.  OfferA and OfferB are the two
\* offers of the specification's scenarios; OfferA2 and OfferB2 re-create the
\* same identifiers with other fields and a mapping that already enables u1
\* (OfferB2 with a milestone count); OfferNoMap carries no enabledFor member
\* and a negative outcome; OfferNoID carries no id member.
OfferA ==
    [id |-> "A", outcome |-> 5, minAmount |-> 100, merchantCategory |-> "grocery",
     enabledFor |-> NoEntries]

OfferB ==
    [id |-> "B", outcome |-> 8, minAmount |-> 50, merchantCategory |-> "grocery",
     enabledFor |-> NoEntries]

OfferA2 ==
    [id |-> "A", outcome |-> 8, minAmount |-> 50, merchantCategory |-> "Grocery",
     enabledFor |-> U1Enabled]

OfferB2 ==
    [id |-> "B", outcome |-> 5, minAmount |-> 100, minMilestone |-> 3,
     merchantCategory |-> "grocery", enabledFor |-> U1Enabled]

OfferNoMap ==
    [id |-> "A", outcome |-> -1, minAmount |-> 100, merchantCategory |-> "grocery"]

OfferNoID ==
    [outcome |-> 8, minAmount |-> 50, merchantCategory |-> "grocery",
     enabledFor |-> U1Enabled]

OfferPayloads == {OfferA, OfferB, OfferA2, OfferB2, OfferNoMap, OfferNoID}

OfferBodies == OfferPayloads \cup {Malformed}

\* The transaction payloads posted to /create-transaction: at the higher
\* minAmount and one below it, in the offers' category and in its case variant,
\* from u1 and from u2.
TransactionPayloads ==
    [customerId : {"u1"}, amount : Amounts, merchantCategory : {"grocery"}]
    \cup {[customerId |-> "u1", amount |-> 100, merchantCategory |-> "Grocery"],
          [customerId |-> "u2", amount |-> 100, merchantCategory |-> "grocery"]}

TransactionBodies == TransactionPayloads \cup {Malformed}

\* json.Decoder.Decode returns an error for a body that does not parse.
DecodeErr(body) == "syntaxError" \in DOMAIN body

\* Decode into a zero Offer: members absent from the body keep the zero value
\* ("" / 0 / nil map).
DecodeOffer(body) ==
    [ID               |-> IF "id" \in DOMAIN body THEN body.id ELSE "",
     Outcome          |-> IF "outcome" \in DOMAIN body THEN body.outcome ELSE 0,
     MinAmount        |-> IF "minAmount" \in DOMAIN body THEN body.minAmount ELSE 0,
     MinMilestone     |-> IF "minMilestone" \in DOMAIN body THEN body.minMilestone ELSE 0,
     MerchantCategory |-> IF "merchantCategory" \in DOMAIN body
                          THEN body.merchantCategory ELSE "",
     EnabledFor       |-> IF "enabledFor" \in DOMAIN body
                          THEN MakeMap(body.enabledFor) ELSE NilMap]

\* Decode into a zero Transaction.
DecodeTransaction(body) ==
    [CustomerID       |-> IF "customerId" \in DOMAIN body THEN body.customerId ELSE "",
     Amount           |-> IF "amount" \in DOMAIN body THEN body.amount ELSE 0,
     MerchantCategory |-> IF "merchantCategory" \in DOMAIN body
                          THEN body.merchantCategory ELSE ""]

(***************************************************************************)
(* The history of enable and disable requests served with success.         *)
(***************************************************************************)
NoteEnabled(offerName, userID) ==
    {t \in disabled : ~(t[1] = offerName /\ t[2] = userID)}

NoteDisabled(offerName, userID, a) ==
    NoteEnabled(offerName, userID) \cup {<<offerName, userID, a>>}

(***************************************************************************)
(* Offer methods.                                                          *)
(***************************************************************************)
\* Mutant: every entry of the map set, not only the user's.
EnableForUser_All(o, userID) ==
    [o EXCEPT !.EnabledFor =
        [@ EXCEPT !.kv = [x \in (DOMAIN @) \cup {userID} |-> TRUE]]]

EnableForUser(o, userID) == [o EXCEPT !.EnabledFor = MapAssign(@, userID, TRUE)]

\* Mutant: the flag written by disable is true (the line copied from enable).
DisableForUser_True(o, userID) == [o EXCEPT !.EnabledFor = MapAssign(@, userID, TRUE)]

\* Mutant: disable replaces the map by one holding the user's entry alone.
DisableForUser_Reset(o, userID) ==
    [o EXCEPT !.EnabledFor = MakeMap([x \in {userID} |-> FALSE])]

DisableForUser(o, userID) == [o EXCEPT !.EnabledFor = MapAssign(@, userID, FALSE)]

(***************************************************************************)
(* Eligibility and selection.                                              *)
(***************************************************************************)
\* Mutant: the lower bound taken exclusive.
isOfferApplicable_Exclusive(transaction, offer) ==
    /\ transaction.Amount > offer.MinAmount
    /\ transaction.MerchantCategory = offer.MerchantCategory
    /\ MapIndex(offer.EnabledFor, transaction.CustomerID)

\* Mutant: the milestone count consulted, offers with one refused.
isOfferApplicable_Milestone(transaction, offer) ==
    /\ transaction.Amount >= offer.MinAmount
    /\ transaction.MerchantCategory = offer.MerchantCategory
    /\ MapIndex(offer.EnabledFor, transaction.CustomerID)
    /\ offer.MinMilestone = 0

isOfferApplicable(transaction, offer) ==
    /\ transaction.Amount >= offer.MinAmount
    /\ transaction.MerchantCategory = offer.MerchantCategory
    /\ MapIndex(offer.EnabledFor, transaction.CustomerID)

\* Mutant: the comparison of outcomes forgotten, the last applicable offer wins.
BestStep_LastWins(transaction, bestOffer, a) ==
    IF isOfferApplicable(transaction, heap[a]) THEN a ELSE bestOffer

\* Mutant: an equal outcome displaces the current best (>= for >).
BestStep_TieDisplaces(transaction, bestOffer, a) ==
    IF isOfferApplicable(transaction, heap[a])
    THEN IF bestOffer = NilPtr \/ heap[a].Outcome >= heap[bestOffer].Outcome
         THEN a
         ELSE bestOffer
    ELSE bestOffer

\* One iteration of the range loop: the offer at address a against bestOffer.
BestStep(transaction, bestOffer, a) ==
    IF isOfferApplicable(transaction, heap[a])
    THEN IF bestOffer = NilPtr \/ heap[a].Outcome > heap[bestOffer].Outcome
         THEN a
         ELSE bestOffer
    ELSE bestOffer

\* The range loop over the map, its keys visited in the order `order`.
RECURSIVE RangeLoop(_, _, _, _)
RangeLoop(transaction, m, order, bestOffer) ==
    IF order = <<>>
    THEN bestOffer
    ELSE RangeLoop(transaction, m, Tail(order),
                   BestStep(transaction, bestOffer, m[Head(order)]))

\* Mutant: the error return lost, (nil, nil) when nothing applies.
ApplyResult_NoErr(bestOffer) == [offer |-> bestOffer, err |-> FALSE]

\* What the function returns once the loop is over: (bestOffer, nil) or (nil, err).
ApplyResult(bestOffer) ==
    IF bestOffer # NilPtr
    THEN [offer |-> bestOffer, err |-> FALSE]
    ELSE [offer |-> NilPtr, err |-> TRUE]

ApplyBestOfferForTransaction(transaction, m, order) ==
    ApplyResult(RangeLoop(transaction, m, order, NilPtr))

\* The orders in which a range over a map with key set S may visit the keys.
Orders(S) ==
    {s \in [1..Cardinality(S) -> S] : \A i, j \in 1..Cardinality(S) : s[i] = s[j] => i = j}

\* History: the results ApplyBestOfferForTransaction can return for the
\* transaction when run alone, under some order, on the map m of Offer objects
\* h: any applicable offer of greatest outcome, nil when none is applicable.
PossibleResults(transaction, m, h) ==
    LET App == {a \in Range(m) : isOfferApplicable(transaction, h[a])}
    IN IF App = {}
       THEN {NilPtr}
       ELSE {a \in App : \A b \in App : h[a].Outcome >= h[b].Outcome}

(***************************************************************************)
(* Init: main() makes the empty map before serving.                        *)
(***************************************************************************)
Init ==
    /\ offers = [k \in {} |-> NilPtr]
    /\ heap = <<>>
    /\ resp = [op |-> "none"]
    /\ reqs = [g \in Goroutines |-> Idle]
    /\ fatal = FALSE
    /\ disabled = {}

(***************************************************************************)
(* Handlers, each served to completion.                                    *)
(***************************************************************************)
\* Mutant: an offer stored under an identifier already present keeps the prior
\* offer's enablement entries (merge instead of replace).
createOfferHandler_Merge(body) ==
    IF DecodeErr(body)
    THEN /\ resp' = [op |-> "create", body |-> body, status |-> "invalid-data"]
         /\ UNCHANGED <<offers, heap, reqs, fatal, disabled>>
    ELSE LET offer == DecodeOffer(body)
             a == Len(heap) + 1
             old == IF offer.ID \in DOMAIN offers
                    THEN heap[offers[offer.ID]].EnabledFor.kv
                    ELSE NoEntries
             merged == [offer EXCEPT !.EnabledFor.kv =
                          [u \in (DOMAIN @) \cup (DOMAIN old) |->
                              IF u \in DOMAIN @ THEN @[u] ELSE old[u]]]
         IN /\ Len(heap) < MaxOffers
            /\ heap' = Append(heap, merged)
            /\ offers' = [k \in (DOMAIN offers) \cup {offer.ID} |->
                             IF k = offer.ID THEN a ELSE offers[k]]
            /\ resp' = [op |-> "create", body |-> body, status |-> "ok"]
            /\ UNCHANGED <<reqs, fatal, disabled>>

createOfferHandler(body) ==
    IF DecodeErr(body)
    THEN /\ resp' = [op |-> "create", body |-> body, status |-> "invalid-data"]
         /\ UNCHANGED <<offers, heap, reqs, fatal, disabled>>
    ELSE LET offer == DecodeOffer(body)
             a == Len(heap) + 1
         IN /\ Len(heap) < MaxOffers
            /\ heap' = Append(heap, offer)
            /\ offers' = [k \in (DOMAIN offers) \cup {offer.ID} |->
                             IF k = offer.ID THEN a ELSE offers[k]]
            /\ resp' = [op |-> "create", body |-> body, status |-> "ok"]
            /\ UNCHANGED <<reqs, fatal, disabled>>

\* Mutant: an unknown identifier answered with not-found and yet given an offer
\* (get-or-create instead of get).
enableOfferHandler_Upsert(offerName, userID) ==
    IF offerName \notin DOMAIN offers
    THEN /\ resp' = [op |-> "enable", id |-> offerName, user |-> userID,
                     status |-> "not-found"]
         /\ heap' = Append(heap, [DecodeOffer([id |-> offerName]) EXCEPT
                                    !.EnabledFor = MakeMap([u \in {userID} |-> TRUE])])
         /\ offers' = [k \in (DOMAIN offers) \cup {offerName} |->
                          IF k = offerName THEN Len(heap) + 1 ELSE offers[k]]
         /\ UNCHANGED <<reqs, fatal, disabled>>
    ELSE LET a == offers[offerName]
         IN IF MapAssignPanics(heap[a].EnabledFor)
            THEN /\ resp' = [op |-> "enable", id |-> offerName, user |-> userID,
                             status |-> "panic"]
                 /\ UNCHANGED <<offers, heap, reqs, fatal, disabled>>
            ELSE /\ heap' = [heap EXCEPT ![a] = EnableForUser(@, userID)]
                 /\ resp' = [op |-> "enable", id |-> offerName, user |-> userID,
                             status |-> "ok"]
                 /\ UNCHANGED <<offers, reqs, fatal>>
                 /\ disabled' = NoteEnabled(offerName, userID)

enableOfferHandler(offerName, userID) ==
    IF offerName \notin DOMAIN offers
    THEN /\ resp' = [op |-> "enable", id |-> offerName, user |-> userID,
                     status |-> "not-found"]
         /\ UNCHANGED <<offers, heap, reqs, fatal, disabled>>
    ELSE LET a == offers[offerName]
         IN IF MapAssignPanics(heap[a].EnabledFor)
            THEN \* the server recovers the panic and drops the connection
                 /\ resp' = [op |-> "enable", id |-> offerName, user |-> userID,
                             status |-> "panic"]
                 /\ UNCHANGED <<offers, heap, reqs, fatal, disabled>>
            ELSE /\ heap' = [heap EXCEPT ![a] = EnableForUser(@, userID)]
                 /\ resp' = [op |-> "enable", id |-> offerName, user |-> userID,
                             status |-> "ok"]
                 /\ UNCHANGED <<offers, reqs, fatal>>
                 /\ disabled' = NoteEnabled(offerName, userID)

disableOfferHandler(offerName, userID) ==
    IF offerName \notin DOMAIN offers
    THEN /\ resp' = [op |-> "disable", id |-> offerName, user |-> userID,
                     status |-> "not-found"]
         /\ UNCHANGED <<offers, heap, reqs, fatal, disabled>>
    ELSE LET a == offers[offerName]
         IN IF MapAssignPanics(heap[a].EnabledFor)
            THEN /\ resp' = [op |-> "disable", id |-> offerName, user |-> userID,
                             status |-> "panic"]
                 /\ UNCHANGED <<offers, heap, reqs, fatal, disabled>>
            ELSE /\ heap' = [heap EXCEPT ![a] = DisableForUser(@, userID)]
                 /\ resp' = [op |-> "disable", id |-> offerName, user |-> userID,
                             status |-> "ok"]
                 /\ UNCHANGED <<offers, reqs, fatal>>
                 /\ disabled' = NoteDisabled(offerName, userID, a)

offersDetailsHandler ==
    /\ \E order \in Orders(DOMAIN offers) :
          resp' = [op |-> "list", status |-> "ok",
                   allOffers |-> [i \in 1..Len(order) |-> heap[offers[order[i]]]],
                   snapshot |-> [i \in 1..Len(order) |-> heap[offers[order[i]]]]]
    /\ UNCHANGED <<offers, heap, reqs, fatal, disabled>>

\* Mutant: the read EnabledFor[customer] inserts the missing entry as false.
createTransactionHandler_Inserting(body) ==
    /\ IF DecodeErr(body)
       THEN /\ resp' = [op |-> "submit", body |-> body, status |-> "invalid-data"]
            /\ heap' = heap
       ELSE /\ \E order \in Orders(DOMAIN offers) :
                  LET transaction == DecodeTransaction(body)
                      r == ApplyBestOfferForTransaction(transaction, offers, order)
                  IN resp' = [op |-> "submit", body |-> body, order |-> order,
                           could |-> PossibleResults(transaction, offers, heap),
                              bestOffer |-> r.offer, err |-> r.err,
                              status |-> IF r.err THEN "no-applicable-offer"
                                         ELSE IF r.offer = NilPtr THEN "panic"
                                         ELSE "ok"]
            /\ heap' = [a \in DOMAIN heap |->
                           IF /\ a \in Range(offers)
                              /\ ~heap[a].EnabledFor.isNil
                              /\ body.customerId \notin DOMAIN heap[a].EnabledFor.kv
                           THEN DisableForUser(heap[a], body.customerId)
                           ELSE heap[a]]
    /\ UNCHANGED <<offers, reqs, fatal, disabled>>

createTransactionHandler(body) ==
    /\ IF DecodeErr(body)
       THEN resp' = [op |-> "submit", body |-> body, status |-> "invalid-data"]
       ELSE \E order \in Orders(DOMAIN offers) :
               LET transaction == DecodeTransaction(body)
                   r == ApplyBestOfferForTransaction(transaction, offers, order)
               IN resp' = [op |-> "submit", body |-> body, order |-> order,
                           could |-> PossibleResults(transaction, offers, heap),
                           bestOffer |-> r.offer, err |-> r.err,
                           status |-> IF r.err THEN "no-applicable-offer"
                                      ELSE IF r.offer = NilPtr THEN "panic"
                                      ELSE "ok"]
    /\ UNCHANGED <<offers, heap, reqs, fatal, disabled>>

Next ==
    \/ \E body \in OfferBodies : createOfferHandler(body)
    \/ \E id \in OfferIDs, u \in Users : enableOfferHandler(id, u)
    \/ \E id \in OfferIDs, u \in Users : disableOfferHandler(id, u)
    \/ offersDetailsHandler
    \/ \E body \in TransactionBodies : createTransactionHandler(body)

Spec == Init /\ [][Next]_vars

(***************************************************************************)
(* SpecConc: the same handlers, one goroutine per request, split at their  *)
(* accesses to the shared maps.  An access lasts from the step that enters *)
(* a pc to the step that leaves it: a write takes effect when it ends, a   *)
(* read or an iteration step sees the memory of the step that makes it.    *)
(***************************************************************************)
ConcOfferBodies == {OfferA, OfferB2, OfferNoMap}

ConcUsers == {"u1"}

ConcOfferIDs == {"A"}

ConcTransactionBodies ==
    {[customerId |-> "u1", amount |-> 100, merchantCategory |-> "grocery"]}

\* createOfferHandler writing offers[offer.ID].
StoringCount == Cardinality({g \in Goroutines : reqs[g].pc = "store"})

\* The map accesses a goroutine is in the middle of: on = 0 is the map `offers`,
\* on = a > 0 is the EnabledFor map of the Offer at address a.
Accessing(l) ==
    CASE l.pc = "store"       -> {[on |-> 0, mode |-> "write"]}
      [] l.pc = "lookup"      -> {[on |-> 0, mode |-> "read"]}
      [] l.pc = "toggle"      -> {[on |-> l.ptr, mode |-> "write"]}
      [] l.pc = "list_range"  -> {[on |-> 0, mode |-> "iterate"]}
      [] l.pc = "encode"      -> {[on |-> a, mode |-> "iterate"] :
                                     a \in {x \in Range(l.allOffers) : ~heap[x].EnabledFor.isNil}}
      [] l.pc = "apply_range" -> {[on |-> 0, mode |-> "iterate"]}
                                 \cup (IF l.reading # NilPtr
                                       THEN {[on |-> l.reading, mode |-> "read"]}
                                       ELSE {})
      [] OTHER                -> {}

\* Two goroutines are on the same map and one of them is writing it.
Race ==
    \E g1, g2 \in Goroutines :
        /\ g1 # g2
        /\ \E x \in Accessing(reqs[g1]), y \in Accessing(reqs[g2]) :
              x.on = y.on /\ x.mode = "write"

\* History kept for a transaction being served: the results it could return if
\* it ran alone on one of the states of the maps since it began.
Observe(l, m, h) ==
    IF l.pc = "apply_range"
    THEN [l EXCEPT !.could = @ \cup PossibleResults(DecodeTransaction(l.body), m, h)]
    ELSE l

\* POST /create-offer: decode, then the map write offers[offer.ID] = &offer.
CreateStart(g, body) ==
    /\ ~fatal /\ reqs[g].pc = "idle"
    /\ IF DecodeErr(body)
       THEN /\ resp' = [op |-> "create", body |-> body, status |-> "invalid-data"]
            /\ UNCHANGED reqs
       ELSE /\ Len(heap) + StoringCount < MaxOffers
            /\ reqs' = [reqs EXCEPT ![g] = [pc |-> "store", body |-> body]]
            /\ UNCHANGED resp
    /\ UNCHANGED <<offers, heap, fatal, disabled>>

CreateStore(g) ==
    /\ ~fatal /\ reqs[g].pc = "store"
    /\ LET offer == DecodeOffer(reqs[g].body)
           a == Len(heap) + 1
       IN /\ heap' = Append(heap, offer)
          /\ offers' = [k \in (DOMAIN offers) \cup {offer.ID} |->
                           IF k = offer.ID THEN a ELSE offers[k]]
    /\ resp' = [op |-> "create", body |-> reqs[g].body, status |-> "ok"]
    /\ reqs' = [h \in Goroutines |->
                  IF h = g THEN Idle ELSE Observe(reqs[h], offers', heap')]
    /\ UNCHANGED <<fatal, disabled>>

\* POST /enable/.. and /disable/..: the map read offers[offerName] ...
ToggleStart(g, op, offerName, userID) ==
    /\ ~fatal /\ reqs[g].pc = "idle"
    /\ reqs' = [reqs EXCEPT ![g] = [pc |-> "lookup", op |-> op, id |-> offerName,
                                    user |-> userID]]
    /\ UNCHANGED <<offers, heap, resp, fatal, disabled>>

ToggleLookup(g) ==
    /\ ~fatal /\ reqs[g].pc = "lookup"
    /\ LET l == reqs[g]
       IN IF l.id \notin DOMAIN offers
          THEN /\ resp' = [op |-> l.op, id |-> l.id, user |-> l.user,
                           status |-> "not-found"]
               /\ reqs' = [reqs EXCEPT ![g] = Idle]
          ELSE IF MapAssignPanics(heap[offers[l.id]].EnabledFor)
               THEN /\ resp' = [op |-> l.op, id |-> l.id, user |-> l.user,
                                status |-> "panic"]
                    /\ reqs' = [reqs EXCEPT ![g] = Idle]
               ELSE /\ reqs' = [reqs EXCEPT ![g] =
                                   [pc |-> "toggle", op |-> l.op, id |-> l.id,
                                    user |-> l.user, ptr |-> offers[l.id]]]
                    /\ UNCHANGED resp
    /\ UNCHANGED <<offers, heap, fatal, disabled>>

\* ... then the map write offer.EnabledFor[userID] through the pointer read.
ToggleWrite(g) ==
    /\ ~fatal /\ reqs[g].pc = "toggle"
    /\ LET l == reqs[g]
       IN /\ heap' = [heap EXCEPT ![l.ptr] = IF l.op = "enable"
                                             THEN EnableForUser(@, l.user)
                                             ELSE DisableForUser(@, l.user)]
          /\ resp' = [op |-> l.op, id |-> l.id, user |-> l.user, status |-> "ok"]
    /\ disabled' = IF reqs[g].op = "enable"
                    THEN NoteEnabled(reqs[g].id, reqs[g].user)
                    ELSE NoteDisabled(reqs[g].id, reqs[g].user, reqs[g].ptr)
    /\ reqs' = [h \in Goroutines |->
                  IF h = g THEN Idle ELSE Observe(reqs[h], offers, heap')]
    /\ UNCHANGED <<offers, fatal>>

\* A range over `offers` that other goroutines write meanwhile: every key present
\* when the loop began is visited once; a key stored during the loop is visited
\* or skipped.
RangeMayVisit(l, k) == k \in DOMAIN offers /\ k \notin Range(l.seen)

RangeMayEnd(l) == l.orig \subseteq Range(l.seen)

\* GET /offers: the range loop copying *offer (the copy shares the EnabledFor
\* map), then the encoder reading every copy.  History: snapshot keeps what
\* each Offer held when the loop copied it.
ListStart(g) ==
    /\ ~fatal /\ reqs[g].pc = "idle"
    /\ reqs' = [reqs EXCEPT ![g] = [pc |-> "list_range", orig |-> DOMAIN offers,
                                    seen |-> <<>>, allOffers |-> <<>>,
                                    snapshot |-> <<>>]]
    /\ UNCHANGED <<offers, heap, resp, fatal, disabled>>

ListVisit(g, k) ==
    /\ ~fatal /\ reqs[g].pc = "list_range"
    /\ RangeMayVisit(reqs[g], k)
    /\ reqs' = [reqs EXCEPT ![g].seen = Append(@, k),
                            ![g].allOffers = Append(@, offers[k]),
                            ![g].snapshot = Append(@, heap[offers[k]])]
    /\ UNCHANGED <<offers, heap, resp, fatal, disabled>>

ListEncode(g) ==
    /\ ~fatal /\ reqs[g].pc = "list_range"
    /\ RangeMayEnd(reqs[g])
    /\ reqs' = [reqs EXCEPT ![g] = [pc |-> "encode", allOffers |-> reqs[g].allOffers,
                                    snapshot |-> reqs[g].snapshot]]
    /\ UNCHANGED <<offers, heap, resp, fatal, disabled>>

ListRespond(g) ==
    /\ ~fatal /\ reqs[g].pc = "encode"
    /\ resp' = [op |-> "list", status |-> "ok",
                allOffers |-> [i \in DOMAIN reqs[g].allOffers |->
                                  heap[reqs[g].allOffers[i]]],
                snapshot |-> reqs[g].snapshot]
    /\ reqs' = [reqs EXCEPT ![g] = Idle]
    /\ UNCHANGED <<offers, heap, fatal, disabled>>

\* POST /create-transaction: decode, the range loop of
\* ApplyBestOfferForTransaction, then the response.
SubmitStart(g, body) ==
    /\ ~fatal /\ reqs[g].pc = "idle"
    /\ IF DecodeErr(body)
       THEN /\ resp' = [op |-> "submit", body |-> body, status |-> "invalid-data"]
            /\ UNCHANGED reqs
       ELSE /\ reqs' = [reqs EXCEPT ![g] =
                           [pc |-> "apply_range", body |-> body, orig |-> DOMAIN offers,
                            seen |-> <<>>, bestOffer |-> NilPtr, reading |-> NilPtr,
                            could |-> PossibleResults(DecodeTransaction(body),
                                                      offers, heap)]]
            /\ UNCHANGED resp
    /\ UNCHANGED <<offers, heap, fatal, disabled>>

\* The EnabledFor map of the offer is read only when the two comparisons before
\* it in the conjunction hold, and a nil map is not read at all.
ReadsEnabledFor(transaction, offer) ==
    /\ transaction.Amount >= offer.MinAmount
    /\ transaction.MerchantCategory = offer.MerchantCategory
    /\ ~offer.EnabledFor.isNil

SubmitVisit(g, k) ==
    /\ ~fatal /\ reqs[g].pc = "apply_range"
    /\ RangeMayVisit(reqs[g], k)
    /\ LET transaction == DecodeTransaction(reqs[g].body)
           a == offers[k]
       IN reqs' = [reqs EXCEPT
                     ![g].seen = Append(@, k),
                     ![g].bestOffer = BestStep(transaction, @, a),
                     ![g].reading = IF ReadsEnabledFor(transaction, heap[a])
                                    THEN a ELSE NilPtr]
    /\ UNCHANGED <<offers, heap, resp, fatal, disabled>>

SubmitRespond(g) ==
    /\ ~fatal /\ reqs[g].pc = "apply_range"
    /\ RangeMayEnd(reqs[g])
    /\ LET r == ApplyResult(reqs[g].bestOffer)
       IN resp' = [op |-> "submit", body |-> reqs[g].body, order |-> reqs[g].seen,
                   could |-> reqs[g].could,
                   bestOffer |-> r.offer, err |-> r.err,
                   status |-> IF r.err THEN "no-applicable-offer"
                              ELSE IF r.offer = NilPtr THEN "panic"
                              ELSE "ok"]
    /\ reqs' = [reqs EXCEPT ![g] = Idle]
    /\ UNCHANGED <<offers, heap, fatal, disabled>>

\* The runtime's check of concurrent map access may catch a race in progress:
\* "fatal error: concurrent map writes" (or "... read and map write",
\* "... iteration and map write") ends the process.  When it does not, the
\* accesses take effect in the order of their steps.
Throw ==
    /\ ~fatal /\ Race
    /\ fatal' = TRUE
    /\ UNCHANGED <<offers, heap, resp, reqs, disabled>>

NextConc ==
    \/ \E g \in Goroutines, body \in ConcOfferBodies : CreateStart(g, body)
    \/ \E g \in Goroutines : CreateStore(g)
    \/ \E g \in Goroutines, op \in {"enable", "disable"}, id \in ConcOfferIDs,
          u \in ConcUsers : ToggleStart(g, op, id, u)
    \/ \E g \in Goroutines : ToggleLookup(g)
    \/ \E g \in Goroutines : ToggleWrite(g)
    \/ \E g \in Goroutines : ListStart(g)
    \/ \E g \in Goroutines, k \in {""} \cup OfferIDs : ListVisit(g, k)
    \/ \E g \in Goroutines : ListEncode(g)
    \/ \E g \in Goroutines : ListRespond(g)
    \/ \E g \in Goroutines, body \in ConcTransactionBodies : SubmitStart(g, body)
    \/ \E g \in Goroutines, k \in {""} \cup OfferIDs : SubmitVisit(g, k)
    \/ \E g \in Goroutines : SubmitRespond(g)
    \/ Throw

SpecConc == Init /\ [][NextConc]_vars

(***************************************************************************)
(* Properties.                                                             *)
(***************************************************************************)
\* The last request served was a transaction whose body decoded.
Submitted == resp.op = "submit" /\ resp.status # "invalid-data"

\* The last request served was an enable or a disable.
Toggled == resp.op \in {"enable", "disable"}

\* The last request served stored an offer.
Created == resp.op = "create" /\ resp.status = "ok"

\* The identifier an offer payload is stored under.
PayloadID(body) == IF "id" \in DOMAIN body THEN body.id ELSE ""

\* The enablement mapping of o holds true for user u.
HoldsTrueFor(o, u) ==
    /\ ~o.EnabledFor.isNil
    /\ u \in DOMAIN o.EnabledFor.kv
    /\ o.EnabledFor.kv[u] = TRUE

\* The entry of user u in the enablement mapping of o.
Entry(o, u) ==
    IF u \in DOMAIN o.EnabledFor.kv
    THEN (IF o.EnabledFor.kv[u] THEN "true" ELSE "false")
    ELSE "absent"

\* The entry of user u in the enabledFor member of an offer payload.
PayloadEntry(body, u) ==
    IF "enabledFor" \in DOMAIN body /\ u \in DOMAIN body.enabledFor
    THEN (IF body.enabledFor[u] THEN "true" ELSE "false")
    ELSE "absent"

\* Categories with the letter case folded.
FoldCase(c) == IF c = "Grocery" THEN "grocery" ELSE c

\* The offers of the Store applicable to transaction T.
ApplicableInStore(T) == {a \in Range(offers) : isOfferApplicable(T, heap[a])}

\* C1: for every transaction T and every offer O, isOfferApplicable(T, O) is
\* true if and only if T.amount >= O.minAmount, the two merchant categories are
\* the same string, and O's enablement mapping holds true for T's customer; so
\* amount = minAmount is eligible when the rest holds, amount = minAmount - 1 is
\* not, and a category differing only in letter case is not.
C1_ApplicableIffAllThree ==
    \A a \in DOMAIN heap, body \in TransactionPayloads :
        LET T == DecodeTransaction(body)
            O == heap[a]
            rest == /\ body.merchantCategory = O.MerchantCategory
                    /\ HoldsTrueFor(O, body.customerId)
        IN /\ isOfferApplicable(T, O) <=> (~(body.amount < O.MinAmount) /\ rest)
           /\ (body.amount = O.MinAmount /\ rest) => isOfferApplicable(T, O)
           /\ body.amount = O.MinAmount - 1 => ~isOfferApplicable(T, O)
           /\ (/\ body.merchantCategory # O.MerchantCategory
               /\ FoldCase(body.merchantCategory) = FoldCase(O.MerchantCategory))
              => ~isOfferApplicable(T, O)

\* C1 witness: a transaction was given an offer whose minAmount equals its
\* amount, while the Store also holds an offer enabled for the customer, cheap
\* enough, whose category differs from the transaction's in letter case only.
C1_Witness ==
    /\ Submitted /\ resp.status = "ok"
    /\ resp.body.amount = heap[resp.bestOffer].MinAmount
    /\ \E a \in Range(offers) :
          /\ a # resp.bestOffer
          /\ HoldsTrueFor(heap[a], resp.body.customerId)
          /\ resp.body.amount >= heap[a].MinAmount
          /\ resp.body.merchantCategory # heap[a].MerchantCategory
          /\ FoldCase(resp.body.merchantCategory) = FoldCase(heap[a].MerchantCategory)

\* C2: whenever an offer of the Store is applicable to the transaction,
\* ApplyBestOfferForTransaction returns an offer of the Store that is applicable
\* and whose outcome is at least that of every applicable offer; an applicable
\* offer whose outcome is strictly above all others' is the one returned,
\* whatever the order of iteration.
C2_BestApplicableReturned ==
    Submitted =>
        LET T == DecodeTransaction(resp.body)
            App == ApplicableInStore(T)
        IN App # {} =>
              /\ resp.bestOffer \in Range(offers)
              /\ resp.bestOffer \in App
              /\ \A a \in App : heap[resp.bestOffer].Outcome >= heap[a].Outcome
              /\ \A a \in App :
                    (\A b \in App \ {a} : heap[a].Outcome > heap[b].Outcome)
                    => resp.bestOffer = a

\* C2 witness: two offers of different outcome were applicable, and the better
\* one was visited first.
C2_Witness ==
    /\ Submitted
    /\ LET App == ApplicableInStore(DecodeTransaction(resp.body))
       IN /\ \E a, b \in App : heap[a].Outcome > heap[b].Outcome
          /\ offers[resp.order[1]] = resp.bestOffer

\* C3: ApplyBestOfferForTransaction returns the error, and no offer, if and
\* only if no offer of the Store is applicable (an empty Store included); every
\* call returns exactly one of an offer and the error; and the handler answers
\* no-applicable-offer exactly when the error is returned.
C3_ErrorIffNoneApplicable ==
    Submitted =>
        /\ resp.err <=> ApplicableInStore(DecodeTransaction(resp.body)) = {}
        /\ resp.err <=> resp.bestOffer = NilPtr
        /\ resp.status = "no-applicable-offer" <=> resp.err
        /\ resp.status \in {"ok", "no-applicable-offer"}

\* C3 witness: no-applicable-offer from a Store holding offers, none applicable.
C3_Witness ==
    /\ Submitted /\ resp.status = "no-applicable-offer"
    /\ Cardinality(DOMAIN offers) = 2

\* C4: for every offer O of the Store and user U, after EnableOffer(O, U) the
\* flag of U on O reads true, and after DisableOffer(O, U) it reads false.
C4_EnableDisableRoundTrip ==
    (Toggled /\ resp.id \in DOMAIN offers) =>
        (MapIndex(heap[offers[resp.id]].EnabledFor, resp.user) <=> resp.op = "enable")

\* C5: EnableOffer and DisableOffer end in success or offer-not-found and in
\* nothing else, and in success whenever the identifier is in the Store.
C5_TwoOutcomes ==
    Toggled =>
        /\ resp.status \in {"ok", "not-found"}
        /\ resp.id \in DOMAIN offers => resp.status = "ok"

\* C6: EnableOffer or DisableOffer with an identifier that is not in the Store
\* answers offer-not-found and changes neither the Store nor any offer: no
\* offer is created, no enablement entry written.
C6_NotFoundChangesNothing ==
    [][(resp'.op \in {"enable", "disable"} /\ resp'.id \notin DOMAIN offers)
       => (resp'.status = "not-found" /\ offers' = offers /\ heap' = heap)]_vars

\* C6 witness: not-found answered while the Store holds an offer with entries.
C6_Witness ==
    /\ Toggled /\ resp.status = "not-found"
    /\ \E a \in Range(offers) : DOMAIN heap[a].EnabledFor.kv # {}

\* C7: CreateOffer under an identifier already present replaces the prior offer
\* wholesale: the Store then holds under that identifier the payload, field by
\* field and entry by entry of the enablement mapping, nothing of the prior
\* offer; the offers under the other identifiers are unchanged.
C7_CreateReplacesWholesale ==
    [][(resp'.op = "create" /\ resp'.status = "ok") =>
          LET body == resp'.body
              id == PayloadID(body)
          IN /\ DOMAIN offers' = (DOMAIN offers) \cup {id}
             /\ LET o == heap'[offers'[id]]
                IN /\ o.ID = id
                   /\ o.Outcome = body.outcome
                   /\ o.MinAmount = body.minAmount
                   /\ o.MinMilestone = (IF "minMilestone" \in DOMAIN body
                                        THEN body.minMilestone ELSE 0)
                   /\ o.MerchantCategory = body.merchantCategory
                   /\ \A u \in Users : Entry(o, u) = PayloadEntry(body, u)
             /\ \A k \in (DOMAIN offers) \ {id} :
                   /\ offers'[k] = offers[k]
                   /\ heap'[offers'[k]] = heap[offers[k]]]_vars

\* C7 witness: an offer was stored under an identifier whose prior offer had a
\* user enabled that the new payload does not mention.
C7_Witness ==
    /\ Created
    /\ \E a \in DOMAIN heap, u \in Users :
          /\ a # offers[PayloadID(resp.body)]
          /\ heap[a].ID = PayloadID(resp.body)
          /\ HoldsTrueFor(heap[a], u)
          /\ PayloadEntry(resp.body, u) = "absent"
          /\ ~MapIndex(heap[offers[PayloadID(resp.body)]].EnabledFor, u)

\* C8: no reachable state has one request writing the Store or an enablement
\* mapping while another request reads, iterates or writes the same map.
C8_MutualExclusion == ~Race

C10_NoEmptyIdentifier == "" \notin DOMAIN offers

\* The transaction matches the offer in amount and category: the offer is
\* applicable as soon as it is enabled for the customer.
WouldMatch(T, O) ==
    T.Amount >= O.MinAmount /\ T.MerchantCategory = O.MerchantCategory

TopApplicable(T) ==
    {a \in ApplicableInStore(T) :
        \A b \in ApplicableInStore(T) : heap[a].Outcome >= heap[b].Outcome}

\* C13: when applicable offers share the greatest outcome, the one returned is
\* the one of them met first in the iteration order: a later offer of equal
\* outcome never displaces the current best, and every one of the tied offers
\* is returned under some order.
C13_FirstEncounteredWins ==
    Submitted =>
        LET T == DecodeTransaction(resp.body)
            Top == TopApplicable(T)
        IN Top # {} =>
              /\ \E i \in DOMAIN resp.order :
                    /\ offers[resp.order[i]] = resp.bestOffer
                    /\ resp.bestOffer \in Top
                    /\ \A j \in 1..(i - 1) : offers[resp.order[j]] \notin Top
              /\ Cardinality(Top) > 1 =>
                    \A a \in Top : \E order \in Orders(DOMAIN offers) :
                        RangeLoop(T, offers, order, NilPtr) = a

\* C13 witness: two applicable offers tie at the greatest outcome, and the one
\* visited first, here B, is returned although A comes later.
C13_Witness ==
    /\ Submitted
    /\ Cardinality(TopApplicable(DecodeTransaction(resp.body))) = 2
    /\ resp.order = <<"B", "A">>
    /\ resp.bestOffer = offers["B"]

\* C14: SubmitTransaction, whatever its outcome, leaves the set of offers,
\* every field of every offer and every enablement mapping, the set of users
\* with an entry included, as they were.
C14_SubmitReadOnly ==
    [][resp'.op = "submit" => (offers' = offers /\ heap' = heap)]_vars

\* C14 witness: a transaction was refused while a stored offer matching it had
\* a mapping without an entry for its customer.
C14_Witness ==
    /\ Submitted /\ resp.status = "no-applicable-offer"
    /\ \E a \in Range(offers) :
          /\ WouldMatch(DecodeTransaction(resp.body), heap[a])
          /\ ~heap[a].EnabledFor.isNil
          /\ Entry(heap[a], resp.body.customerId) = "absent"

\* C15: DisableOffer(O, U) for a user without an entry leaves U disabled on O
\* and records the explicit entry U -> false.
C15_DisableRecordsFalse ==
    (resp.op = "disable" /\ resp.id \in DOMAIN offers) =>
        /\ ~MapIndex(heap[offers[resp.id]].EnabledFor, resp.user)
        /\ Entry(heap[offers[resp.id]], resp.user) = "false"

\* The milestone counts tried in place of the stored ones.
Milestones == {0, 3}

\* The offer selected from Offer objects h stored as m, visited in `order`: the
\* first applicable offer of greatest outcome, nil when none is applicable.
FirstBest(T, h, m, order) ==
    LET App == {a \in Range(m) : isOfferApplicable(T, h[a])}
        Top == {a \in App : \A b \in App : h[a].Outcome >= h[b].Outcome}
        At(a) == CHOOSE i \in DOMAIN order : m[order[i]] = a
    IN IF App = {}
       THEN NilPtr
       ELSE CHOOSE a \in Top : \A b \in Top : At(a) <= At(b)

\* C16: the milestone count is consulted neither by eligibility nor by
\* selection: with the milestone counts of the stored offers replaced by any
\* others, isOfferApplicable answers the same for every transaction and offer,
\* and the selection made under the same iteration order is the same offer, or
\* the same absence of one.
C16_MilestoneNotConsulted ==
    /\ \A a \in DOMAIN heap, body \in TransactionPayloads, m \in Milestones :
          isOfferApplicable(DecodeTransaction(body), [heap[a] EXCEPT !.MinMilestone = m])
          = isOfferApplicable(DecodeTransaction(body), heap[a])
    /\ Submitted =>
          \A ms \in [DOMAIN heap -> Milestones] :
              FirstBest(DecodeTransaction(resp.body),
                        [a \in DOMAIN heap |-> [heap[a] EXCEPT !.MinMilestone = ms[a]]],
                        offers, resp.order)
              = resp.bestOffer

\* C16 witness: an offer carrying a milestone count was selected.
C16_Witness ==
    /\ Submitted /\ resp.status = "ok"
    /\ heap[resp.bestOffer].MinMilestone > 0

\* C17: every offer held in the Store has a non-negative outcome.
C17_OutcomeNonNegative == \A a \in Range(offers) : heap[a].Outcome >= 0

\* C18: a successful EnableOffer(O, U) or DisableOffer(O, U) changes the entry
\* of U on O and nothing else: not the entries of the other users of O, not the
\* other fields of O, not the identifiers of the Store, not any other offer.
C18_ToggleFrame ==
    [][(resp'.op \in {"enable", "disable"} /\ resp'.status = "ok") =>
          /\ offers' = offers
          /\ DOMAIN heap' = DOMAIN heap
          /\ \A a \in DOMAIN heap :
                IF a = offers[resp'.id]
                THEN /\ [heap'[a] EXCEPT !.EnabledFor = NilMap]
                        = [heap[a] EXCEPT !.EnabledFor = NilMap]
                     /\ heap'[a].EnabledFor.isNil = heap[a].EnabledFor.isNil
                     /\ \A u \in Users \ {resp'.user} :
                           Entry(heap'[a], u) = Entry(heap[a], u)
                ELSE heap'[a] = heap[a]]_vars

\* C18 witness: a disable succeeded on an offer that keeps another user's
\* entry, while the Store holds a second offer.
C18_Witness ==
    /\ resp.op = "disable" /\ resp.status = "ok"
    /\ \E u \in Users \ {resp.user} : Entry(heap[offers[resp.id]], u) = "true"
    /\ Cardinality(DOMAIN offers) = 2

\* C12: what ListOffers returns is a snapshot: each element holds what its
\* offer, enablement mapping included, held when the snapshot was taken, and an
\* EnableOffer, DisableOffer or CreateOffer that runs afterwards, before the
\* response is written, does not change it.
C12_ListIsSnapshot == resp.op = "list" => resp.allOffers = resp.snapshot

\* C19: what SubmitTransaction returns is what best-offer selection gives on
\* one single state of the Store and the enablement mappings that existed
\* between the beginning and the end of the call.
C19_SubmitAtomic == Submitted => resp.bestOffer \in resp.could

====
